---- MODULE Spec2Model ----
(***************************************************************************)
(* Prop-firm drawdown analysis: scripts/analyze-prop-firm.py (v1) and      *)
(* scripts/analyze-prop-firm-v2.py (v2).  Both scripts read the same CSV   *)
(* rows, derive a net PnL per trade, check every calendar day against the  *)
(* daily drawdown limit and the whole history against the max drawdown     *)
(* limit.  Monetary amounts are exact integers (whole currency units).     *)
(* Text is modelled by what the parsers see: a numeric cell is empty, a    *)
(* numeral or non-numeric; a Close Time cell is the tuple of its numerals  *)
(* in the order they are written; a date key is the sequence of character  *)
(* codes of "YYYY-MM-DD".                                                  *)
(***************************************************************************)
EXTENDS Integers, Sequences, FiniteSets, TLC

VARIABLES rows, v1, v2

vars == <<rows, v1, v2>>

\* ---------------------------------------------------------------- bounds
MaxRows == 3

\* ------------------------------------------------------- configuration
ACCOUNT_SIZE == 5000
DAILY_DD_PERCENT == 4
MAX_DD_PERCENT == 8
DAILY_LIMIT == (ACCOUNT_SIZE * DAILY_DD_PERCENT) \div 100
MAX_DD_LIMIT == (ACCOUNT_SIZE * MAX_DD_PERCENT) \div 100

\* ------------------------------------------------------------ CSV cells
\* a numeric cell: the empty string, a numeral, or text float() rejects
EmptyCell == [txt |-> "empty", val |-> 0]
NumCell(n) == [txt |-> "num", val |-> n]
BadCell == [txt |-> "abc", val |-> 0]

\* Close Time cells: "" ; "DD/MM/YYYY HH:MM:SS" as <<DD,MM,YYYY,HH,MM,SS>>
NoTime == <<>>
IsoTime == <<2025, 12, 24, 13, 21, 0>>
T_24Dec_0900 == <<24, 12, 2025, 9, 0, 0>>
T_24Dec_1321 == <<24, 12, 2025, 13, 21, 0>>
T_25Dec_0800 == <<25, 12, 2025, 8, 0, 0>>
T_02Jan_1000 == <<2, 1, 2026, 10, 0, 0>>

CsvRow(id, ct, p, c, s) ==
    [ID |-> id, CloseTime |-> ct, Profit |-> p, Commission |-> c, Swap |-> s]

\* the rows a CSV export is drawn from
RowPool ==
    { CsvRow("Total", IsoTime, BadCell, EmptyCell, EmptyCell),
      CsvRow("Total", T_24Dec_0900, NumCell(-450), NumCell(-50), EmptyCell),
      CsvRow("101", NoTime, NumCell(-250), EmptyCell, EmptyCell),
      CsvRow("102", IsoTime, NumCell(-250), EmptyCell, EmptyCell),
      CsvRow("103", T_24Dec_0900, NumCell(-200), EmptyCell, EmptyCell),
      CsvRow("104", T_24Dec_0900, NumCell(-150), EmptyCell, EmptyCell),
      CsvRow("105", T_24Dec_1321, NumCell(300), NumCell(-50), EmptyCell),
      CsvRow("106", T_24Dec_1321, NumCell(-200), NumCell(-30), NumCell(-20)),
      CsvRow("107", T_25Dec_0800, NumCell(-150), NumCell(-50), EmptyCell),
      CsvRow("109", T_02Jan_1000, NumCell(-150), EmptyCell, EmptyCell),
      CsvRow("110", T_02Jan_1000, NumCell(100), EmptyCell, EmptyCell),
      CsvRow("111", T_25Dec_0800, BadCell, EmptyCell, EmptyCell) }

RowSeqs == UNION { [1..n -> RowPool] : n \in 0..MaxRows }

\* ------------------------------------------------------------- helpers
RECURSIVE LexLess(_, _)
\* a < b for sequences of integers, as Python orders str and datetime
LexLess(a, b) ==
    IF a = <<>> THEN b # <<>>
    ELSE IF b = <<>> THEN FALSE
    ELSE IF Head(a) # Head(b) THEN Head(a) < Head(b)
    ELSE LexLess(Tail(a), Tail(b))

IsLeap(y) == (y % 4 = 0 /\ y % 100 # 0) \/ y % 400 = 0

DaysInMonth(y, m) ==
    IF m \in {4, 6, 9, 11} THEN 30
    ELSE IF m = 2 THEN (IF IsLeap(y) THEN 29 ELSE 28)
    ELSE 31

\* does the text match "%d/%m/%Y %H:%M:%S" and name a real date
MatchesFormat(s) ==
    /\ Len(s) = 6
    /\ s[2] \in 1..12
    /\ s[3] \in 1..9999
    /\ s[1] \in 1..DaysInMonth(s[3], s[2])
    /\ s[4] \in 0..23
    /\ s[5] \in 0..59
    /\ s[6] \in 0..59

\* datetime.strptime: the datetime <<Y,M,D,h,m,s>>
strptime(s) == <<s[3], s[2], s[1], s[4], s[5], s[6]>>

Digit(n) == 48 + n
Pad2(n) == <<Digit(n \div 10), Digit(n % 10)>>
Pad4(n) == <<Digit(n \div 1000), Digit((n \div 100) % 10),
             Digit((n \div 10) % 10), Digit(n % 10)>>

\* dt.strftime("%Y-%m-%d") as character codes ("-" is 45)
\* (RowPool holds four-digit years; %Y of a year below 1000 depends on the libc)
strftime(dt) == Pad4(dt[1]) \o <<45>> \o Pad2(dt[2]) \o <<45>> \o Pad2(dt[3])

\* float(cell or 0) raises ValueError on text that is not a number
FloatRaises(cell) == cell.txt = "abc"

\* float(cell or 0)
FloatOf(cell) == IF cell.txt = "empty" THEN 0 ELSE cell.val

\* net_pnl = profit + commission + swap
NetPnl(row) == FloatOf(row.Profit) + FloatOf(row.Commission) + FloatOf(row.Swap)

RowRaises(row) ==
    FloatRaises(row.Profit) \/ FloatRaises(row.Commission) \/ FloatRaises(row.Swap)

IsTotalOff(row) == FALSE

\* if row['ID'] == 'Total': continue
IsTotal(row) == row.ID = "Total"

RECURSIVE SumPnl(_)
\* sum(t['net_pnl'] for t in day_trades)
SumPnl(ts) == IF ts = <<>> THEN 0 ELSE Head(ts).net_pnl + SumPnl(Tail(ts))

FirstPnl(ts) == IF ts = <<>> THEN 0 ELSE Head(ts).net_pnl

DayPnl(ts) == SumPnl(ts)

\* day_loss = abs(day_pnl) if day_pnl < 0 else 0
DayLoss(day_pnl) == IF day_pnl < 0 THEN -day_pnl ELSE 0

IsBreachedGE(day_loss) == day_loss >= DAILY_LIMIT

\* is_breached = day_loss > DAILY_LIMIT
IsBreached(day_loss) == day_loss > DAILY_LIMIT

EmptyDict == [k \in {} |-> <<>>]

DictOverwrite(d, k, t) ==
    [x \in (DOMAIN d) \cup {k} |-> IF x = k THEN <<t>> ELSE d[x]]

\* if k not in d: d[k] = [] ; d[k].append(t)
DictAppend(d, k, t) ==
    [x \in (DOMAIN d) \cup {k} |->
        IF x = k THEN (IF k \in DOMAIN d THEN Append(d[k], t) ELSE <<t>>)
        ELSE d[x]]

RECURSIVE SortedKeys(_)
\* sorted(trades_by_day.keys())
SortedKeys(S) ==
    IF S = {} THEN <<>>
    ELSE LET m == CHOOSE x \in S : \A y \in S : x = y \/ LexLess(x, y)
         IN <<m>> \o SortedKeys(S \ {m})

RECURSIVE InsertByDt(_, _)
\* put t behind every element whose dt is not later (list.sort is stable)
InsertByDt(sorted, t) ==
    IF sorted = <<>> THEN <<t>>
    ELSE IF LexLess(t.dt, Head(sorted).dt) THEN <<t>> \o sorted
    ELSE <<Head(sorted)>> \o InsertByDt(Tail(sorted), t)

SortUnsorted(ts) == ts

RECURSIVE SortByDt(_)
\* all_trades.sort(key=lambda x: x['dt'])
SortByDt(ts) ==
    IF ts = <<>> THEN <<>>
    ELSE InsertByDt(SortByDt(SubSeq(ts, 1, Len(ts) - 1)), ts[Len(ts)])

\* ====================================================== analyze-prop-firm.py
\* parse_date: strptime raises ValueError on text that does not match
parse_date_raises(date_str) == ~MatchesFormat(date_str)

\* parse_date: the day key "YYYY-MM-DD"
parse_date(date_str) == strftime(strptime(date_str))

V1Init ==
    [pc |-> "read", i |-> 1, trades_by_day |-> EmptyDict, sorted_days |-> <<>>,
     running_balance |-> 0, violation_found |-> FALSE, report |-> <<>>, k |-> 1,
     lowest_equity |-> 0, curr_bal |-> 0, min_bal |-> 0, max_dd_used |-> 0]

\* one iteration of "for row in reader"
V1ReadRowStep(s, row) ==
    IF IsTotal(row) THEN [s EXCEPT !.i = s.i + 1]
    ELSE IF row.CloseTime = <<>> THEN [s EXCEPT !.i = s.i + 1]
    ELSE IF parse_date_raises(row.CloseTime) \/ RowRaises(row)
         THEN [s EXCEPT !.pc = "error"]
    ELSE [s EXCEPT !.i = s.i + 1,
                   !.trades_by_day =
                       DictAppend(s.trades_by_day, parse_date(row.CloseTime),
                                  [id |-> row.ID, net_pnl |-> NetPnl(row),
                                   time |-> row.CloseTime])]

\* sorted_days, running_balance and violation_found before the day loop
V1StartDailyStep(s) ==
    [s EXCEPT !.pc = "daily", !.k = 1,
              !.sorted_days = SortedKeys(DOMAIN s.trades_by_day),
              !.running_balance = ACCOUNT_SIZE,
              !.violation_found = FALSE]

\* one iteration of the daily drawdown loop
V1DailyDayStep(s) ==
    LET day == s.sorted_days[s.k]
        day_trades == s.trades_by_day[day]
        day_pnl == DayPnl(day_trades)
        day_start_balance == s.running_balance
        day_end_balance == day_start_balance + day_pnl
        day_loss == DayLoss(day_pnl)
        is_breached == IsBreached(day_loss)
    IN [s EXCEPT !.k = s.k + 1,
                 !.report = Append(s.report,
                     [date |-> day, start_balance |-> day_start_balance,
                      day_pnl |-> day_pnl, trades |-> Len(day_trades),
                      day_loss |-> day_loss, is_breached |-> is_breached]),
                 !.violation_found = s.violation_found \/ is_breached,
                 !.running_balance = day_end_balance]

\* lowest_equity, curr_bal and min_bal before the max drawdown loop
V1StartMaxStep(s) ==
    [s EXCEPT !.pc = "max", !.k = 1, !.lowest_equity = 5000,
              !.curr_bal = ACCOUNT_SIZE, !.min_bal = ACCOUNT_SIZE]

\* if curr_bal < min_bal: min_bal = curr_bal
V1MinBal(curr_bal, min_bal) == IF curr_bal < min_bal THEN curr_bal ELSE min_bal

\* one iteration of the max drawdown loop: the day's summed PnL at once
V1MaxDayStep(s) ==
    LET day_trades == s.trades_by_day[s.sorted_days[s.k]]
        day_pnl == SumPnl(day_trades)
        curr_bal == s.curr_bal + day_pnl
    IN [s EXCEPT !.k = s.k + 1, !.curr_bal = curr_bal,
                 !.min_bal = V1MinBal(curr_bal, s.min_bal)]

\* max_dd_used and the max drawdown check
V1MaxResultStep(s) ==
    LET max_dd_used == ACCOUNT_SIZE - s.min_bal
    IN [s EXCEPT !.pc = "done", !.max_dd_used = max_dd_used,
                 !.violation_found =
                     IF max_dd_used > MAX_DD_LIMIT THEN TRUE ELSE s.violation_found]

\* the statement the script is at, applied to its state
V1Step(s, rs) ==
    CASE s.pc = "read" /\ s.i <= Len(rs) -> V1ReadRowStep(s, rs[s.i])
      [] s.pc = "read" /\ s.i > Len(rs) -> V1StartDailyStep(s)
      [] s.pc = "daily" /\ s.k <= Len(s.sorted_days) -> V1DailyDayStep(s)
      [] s.pc = "daily" /\ s.k > Len(s.sorted_days) -> V1StartMaxStep(s)
      [] s.pc = "max" /\ s.k <= Len(s.sorted_days) -> V1MaxDayStep(s)
      [] s.pc = "max" /\ s.k > Len(s.sorted_days) -> V1MaxResultStep(s)
      [] OTHER -> s

Finished(s) == s.pc \in {"done", "error"}

RECURSIVE V1RunFrom(_, _)
V1RunFrom(s, rs) == IF Finished(s) THEN s ELSE V1RunFrom(V1Step(s, rs), rs)

\* analyze_csv() of analyze-prop-firm.py on the rows rs
V1Run(rs) == V1RunFrom(V1Init, rs)

V1ReadRow ==
    /\ v1.pc = "read" /\ v1.i <= Len(rows)
    /\ v1' = V1ReadRowStep(v1, rows[v1.i])
    /\ UNCHANGED <<rows, v2>>

V1StartDaily ==
    /\ v1.pc = "read" /\ v1.i > Len(rows)
    /\ v1' = V1StartDailyStep(v1)
    /\ UNCHANGED <<rows, v2>>

V1DailyDay ==
    /\ v1.pc = "daily" /\ v1.k <= Len(v1.sorted_days)
    /\ v1' = V1DailyDayStep(v1)
    /\ UNCHANGED <<rows, v2>>

V1StartMax ==
    /\ v1.pc = "daily" /\ v1.k > Len(v1.sorted_days)
    /\ v1' = V1StartMaxStep(v1)
    /\ UNCHANGED <<rows, v2>>

V1MaxDay ==
    /\ v1.pc = "max" /\ v1.k <= Len(v1.sorted_days)
    /\ v1' = V1MaxDayStep(v1)
    /\ UNCHANGED <<rows, v2>>

V1MaxResult ==
    /\ v1.pc = "max" /\ v1.k > Len(v1.sorted_days)
    /\ v1' = V1MaxResultStep(v1)
    /\ UNCHANGED <<rows, v2>>

\* =================================================== analyze-prop-firm-v2.py
\* parse_datetime: the datetime, or None (<<>>) when strptime raises ValueError
parse_datetime(date_str) ==
    IF MatchesFormat(date_str) THEN strptime(date_str) ELSE <<>>

V2Init ==
    [pc |-> "read", i |-> 1, all_trades |-> <<>>, trades_by_day |-> EmptyDict,
     j |-> 1, violation_found |-> FALSE, running_balance |-> 0,
     min_balance |-> 0, current_balance |-> 0, max_dd_violation |-> FALSE,
     sorted_days |-> <<>>, daily_vol_balance |-> 0, k |-> 1, report |-> <<>>,
     max_dd_used |-> 0, verdict |-> "none"]

\* one iteration of "for row in reader"
V2ReadRowStep(s, row) ==
    IF IsTotal(row) THEN [s EXCEPT !.i = s.i + 1]
    ELSE IF row.CloseTime = <<>> THEN [s EXCEPT !.i = s.i + 1]
    ELSE IF parse_datetime(row.CloseTime) = <<>> THEN [s EXCEPT !.i = s.i + 1]
    ELSE IF RowRaises(row) THEN [s EXCEPT !.pc = "error"]
    ELSE LET dt == parse_datetime(row.CloseTime)
         IN [s EXCEPT !.i = s.i + 1,
                      !.all_trades =
                          Append(s.all_trades,
                                 [dt |-> dt, date_str |-> strftime(dt),
                                  net_pnl |-> NetPnl(row), id |-> row.ID])]

\* the chronological sort, then the empty trades_by_day
V2SortTradesStep(s) ==
    [s EXCEPT !.pc = "group", !.j = 1,
              !.all_trades = SortByDt(s.all_trades),
              !.trades_by_day = EmptyDict]

\* one iteration of "for t in all_trades" that fills trades_by_day
V2GroupTradeStep(s) ==
    LET t == s.all_trades[s.j]
    IN [s EXCEPT !.j = s.j + 1,
                 !.trades_by_day = DictAppend(s.trades_by_day, t.date_str, t)]

\* the balances and flags set before the max drawdown loop
V2InitPassesStep(s) ==
    [s EXCEPT !.pc = "max", !.j = 1, !.violation_found = FALSE,
              !.running_balance = ACCOUNT_SIZE, !.min_balance = ACCOUNT_SIZE,
              !.current_balance = ACCOUNT_SIZE, !.max_dd_violation = FALSE]

V2MinBalanceFlipped(current_balance, min_balance) ==
    IF current_balance > min_balance THEN current_balance ELSE min_balance

\* if current_balance < min_balance: min_balance = current_balance
V2MinBalance(current_balance, min_balance) ==
    IF current_balance < min_balance THEN current_balance ELSE min_balance

\* one iteration of "for trade in all_trades": one trade's PnL at a time
V2MaxTradeStep(s) ==
    LET current_balance == s.current_balance + s.all_trades[s.j].net_pnl
    IN [s EXCEPT !.j = s.j + 1, !.current_balance = current_balance,
                 !.min_balance = V2MinBalance(current_balance, s.min_balance)]

\* sorted_days and daily_vol_balance before the day loop
V2StartDailyStep(s) ==
    [s EXCEPT !.pc = "daily", !.k = 1,
              !.sorted_days = SortedKeys(DOMAIN s.trades_by_day),
              !.daily_vol_balance = ACCOUNT_SIZE]

\* one iteration of the daily drawdown loop
V2DailyDayStep(s) ==
    LET day == s.sorted_days[s.k]
        day_trades == s.trades_by_day[day]
        day_pnl == DayPnl(day_trades)
        day_loss == DayLoss(day_pnl)
        is_breached == IsBreached(day_loss)
    IN [s EXCEPT !.k = s.k + 1,
                 !.report = Append(s.report,
                     [date |-> day, day_pnl |-> day_pnl, day_loss |-> day_loss,
                      is_breached |-> is_breached]),
                 !.violation_found = s.violation_found \/ is_breached,
                 !.daily_vol_balance = s.daily_vol_balance + day_pnl]

VerdictOfDailyOnly(violation_found, max_dd_used) == violation_found

\* the max drawdown check folded into violation_found
VerdictOf(violation_found, max_dd_used) ==
    IF max_dd_used > MAX_DD_LIMIT THEN TRUE ELSE violation_found

\* max_dd_used, the max drawdown check and the verdict
V2MaxResultStep(s) ==
    LET max_dd_used == ACCOUNT_SIZE - s.min_balance
        violation_found == VerdictOf(s.violation_found, max_dd_used)
    IN [s EXCEPT !.pc = "done", !.max_dd_used = max_dd_used,
                 !.violation_found = violation_found,
                 !.verdict = IF ~violation_found THEN "NO VIOLATIONS FOUND"
                             ELSE "VIOLATION DETECTED"]

\* the statement the script is at, applied to its state
V2Step(s, rs) ==
    CASE s.pc = "read" /\ s.i <= Len(rs) -> V2ReadRowStep(s, rs[s.i])
      [] s.pc = "read" /\ s.i > Len(rs) -> V2SortTradesStep(s)
      [] s.pc = "group" /\ s.j <= Len(s.all_trades) -> V2GroupTradeStep(s)
      [] s.pc = "group" /\ s.j > Len(s.all_trades) -> V2InitPassesStep(s)
      [] s.pc = "max" /\ s.j <= Len(s.all_trades) -> V2MaxTradeStep(s)
      [] s.pc = "max" /\ s.j > Len(s.all_trades) -> V2StartDailyStep(s)
      [] s.pc = "daily" /\ s.k <= Len(s.sorted_days) -> V2DailyDayStep(s)
      [] s.pc = "daily" /\ s.k > Len(s.sorted_days) -> V2MaxResultStep(s)
      [] OTHER -> s

RECURSIVE V2RunFrom(_, _)
V2RunFrom(s, rs) == IF Finished(s) THEN s ELSE V2RunFrom(V2Step(s, rs), rs)

\* analyze_csv() of analyze-prop-firm-v2.py on the rows rs
V2Run(rs) == V2RunFrom(V2Init, rs)

\* the second script is run once the first has returned
V2ReadRow ==
    /\ Finished(v1)
    /\ v2.pc = "read" /\ v2.i <= Len(rows)
    /\ v2' = V2ReadRowStep(v2, rows[v2.i])
    /\ UNCHANGED <<rows, v1>>

V2SortTrades ==
    /\ Finished(v1)
    /\ v2.pc = "read" /\ v2.i > Len(rows)
    /\ v2' = V2SortTradesStep(v2)
    /\ UNCHANGED <<rows, v1>>

V2GroupTrade ==
    /\ v2.pc = "group" /\ v2.j <= Len(v2.all_trades)
    /\ v2' = V2GroupTradeStep(v2)
    /\ UNCHANGED <<rows, v1>>

V2InitPasses ==
    /\ v2.pc = "group" /\ v2.j > Len(v2.all_trades)
    /\ v2' = V2InitPassesStep(v2)
    /\ UNCHANGED <<rows, v1>>

V2MaxTrade ==
    /\ v2.pc = "max" /\ v2.j <= Len(v2.all_trades)
    /\ v2' = V2MaxTradeStep(v2)
    /\ UNCHANGED <<rows, v1>>

V2StartDaily ==
    /\ v2.pc = "max" /\ v2.j > Len(v2.all_trades)
    /\ v2' = V2StartDailyStep(v2)
    /\ UNCHANGED <<rows, v1>>

V2DailyDay ==
    /\ v2.pc = "daily" /\ v2.k <= Len(v2.sorted_days)
    /\ v2' = V2DailyDayStep(v2)
    /\ UNCHANGED <<rows, v1>>

V2MaxResult ==
    /\ v2.pc = "daily" /\ v2.k > Len(v2.sorted_days)
    /\ v2' = V2MaxResultStep(v2)
    /\ UNCHANGED <<rows, v1>>

\* ============================================================ specification
Init ==
    /\ rows \in RowSeqs
    /\ v1 = V1Init
    /\ v2 = V2Init

Next ==
    \/ V1ReadRow \/ V1StartDaily \/ V1DailyDay \/ V1StartMax \/ V1MaxDay
    \/ V1MaxResult
    \/ V2ReadRow \/ V2SortTrades \/ V2GroupTrade \/ V2InitPasses \/ V2MaxTrade
    \/ V2StartDaily \/ V2DailyDay \/ V2MaxResult

Spec == Init /\ [][Next]_vars

\* ================================================================ properties
BothDone == v1.pc = "done" /\ v2.pc = "done"

\* what a run reports
V1Outcome(s) ==
    [pc |-> s.pc, report |-> s.report, min_bal |-> s.min_bal,
     max_dd_used |-> s.max_dd_used, violation_found |-> s.violation_found]

V2Outcome(s) ==
    [pc |-> s.pc, report |-> s.report, min_balance |-> s.min_balance,
     max_dd_used |-> s.max_dd_used, violation_found |-> s.violation_found,
     verdict |-> s.verdict]

\* the per-day figures of a report
DayFigures(report) ==
    [n \in 1..Len(report) |->
        [date |-> report[n].date, day_pnl |-> report[n].day_pnl,
         day_loss |-> report[n].day_loss, is_breached |-> report[n].is_breached]]

RECURSIVE PrefixSum(_, _)
\* the sum of the first n net PnLs of ts
PrefixSum(ts, n) == IF n = 0 THEN 0 ELSE PrefixSum(ts, n - 1) + ts[n].net_pnl

\* the balances reached after 0, 1, ..., Len(ts) trades
Balances(ts) == { ACCOUNT_SIZE + PrefixSum(ts, n) : n \in 0..Len(ts) }

\* the lowest of them
Trough(ts) == CHOOSE b \in Balances(ts) : \A c \in Balances(ts) : b <= c

\* ts is in ascending closeTime order
Ascending(ts) ==
    \A a, b \in 1..Len(ts) : a < b => ~LexLess(ts[b].dt, ts[a].dt)

\* the day key written from the numerals of a Close Time cell
KeyOfCell(ct) == strftime(<<ct[3], ct[2], ct[1]>>)

\* a row that becomes a trade: not a summary row, a Close Time that parses
Kept(row) == row.ID # "Total" /\ MatchesFormat(row.CloseTime)

RECURSIVE RowsDaySum(_, _)
\* the net PnL of the kept rows of rs that closed on day d
RowsDaySum(rs, d) ==
    IF rs = <<>> THEN 0
    ELSE (IF Kept(Head(rs)) /\ KeyOfCell(Head(rs).CloseTime) = d
          THEN Head(rs).Profit.val + Head(rs).Commission.val + Head(rs).Swap.val
          ELSE 0) + RowsDaySum(Tail(rs), d)

MaxOf(a, b) == IF a > b THEN a ELSE b

IsTotalRow(row) == row.ID = "Total"
NotTotalRow(row) == row.ID # "Total"
DropTotal(rs) == SelectSeq(rs, NotTotalRow)

TimeParses(row) == MatchesFormat(row.CloseTime)
DropBadTime(rs) == SelectSeq(rs, TimeParses)

\* the bijections of 1..n
Perms(n) == { f \in [1..n -> 1..n] : \A a, b \in 1..n : f[a] = f[b] => a = b }

\* C1: the max drawdown pass ends with minBalance equal to the lowest balance
\* reached after any single trade, the trades taken in ascending closeTime
\* order from accountSize (a trough in the middle of a day is captured)
C1_TradeLevelTrough ==
    BothDone =>
        /\ Ascending(v2.all_trades)
        /\ v2.min_balance = Trough(v2.all_trades)
        /\ v1.min_bal = Trough(v2.all_trades)

\* C2: both scripts compute the same minBalance, the same maxDrawdownUsed and
\* the same max drawdown breach decision
C2_SameMinBalance ==
    BothDone =>
        /\ v1.min_bal = v2.min_balance
        /\ v1.max_dd_used = v2.max_dd_used
        /\ (v1.max_dd_used > MAX_DD_LIMIT) = (v2.max_dd_used > MAX_DD_LIMIT)

\* C3: a row whose Close Time is empty or does not parse is skipped, never
\* fatal: each script reports what it reports on the input without such rows
C3_BadTimeSkipped ==
    (Finished(v1) /\ Finished(v2)) =>
        /\ V2Outcome(v2) = V2Outcome(V2Run(DropBadTime(rows)))
        /\ V1Outcome(v1) = V1Outcome(V1Run(DropBadTime(rows)))

\* the daily figures of one report entry, from the rows alone
DayEntryRight(e) ==
    LET sum == RowsDaySum(rows, e.date)
    IN /\ e.day_pnl = sum
       /\ e.day_loss = MaxOf(0, -sum)
       /\ e.is_breached = (e.day_loss * 100 > ACCOUNT_SIZE * DAILY_DD_PERCENT)

\* C4: a reported day is breached iff dayLoss > dailyLimit (strictly), with
\* dayLoss = max(0, -(sum of the day's netPnl)) and dailyLimit a percentage of
\* the original account size, whatever the balance entering the day
C4_DailyBreach ==
    /\ \A n \in 1..Len(v1.report) : DayEntryRight(v1.report[n])
    /\ \A n \in 1..Len(v2.report) : DayEntryRight(v2.report[n])

\* a day entered below the account size, lost exactly the limit, not breached
C4_Witness ==
    \E n \in 1..Len(v1.report) :
        /\ v1.report[n].start_balance < ACCOUNT_SIZE
        /\ v1.report[n].day_loss = DAILY_LIMIT
        /\ ~v1.report[n].is_breached
        /\ Len(v2.report) >= n /\ ~v2.report[n].is_breached

AnyDayBreached(report) == \E n \in 1..Len(report) : report[n].is_breached

\* C5: at the end, violationFound iff a day was breached or
\* maxDrawdownUsed > maxDrawdownLimit (strictly)
C5_Verdict ==
    /\ v1.pc = "done" =>
          v1.violation_found =
              (AnyDayBreached(v1.report)
                 \/ v1.max_dd_used * 100 > ACCOUNT_SIZE * MAX_DD_PERCENT)
    /\ v2.pc = "done" =>
          /\ v2.violation_found =
                 (AnyDayBreached(v2.report)
                    \/ v2.max_dd_used * 100 > ACCOUNT_SIZE * MAX_DD_PERCENT)
          /\ (v2.verdict = "VIOLATION DETECTED") = v2.violation_found

\* a violation by max drawdown alone: no day breached
C5_Witness ==
    /\ BothDone
    /\ v2.violation_found /\ ~AnyDayBreached(v2.report)
    /\ v1.violation_found /\ ~AnyDayBreached(v1.report)

\* C6: rows with ID "Total" are excluded: the report is the report of the
\* input without them, whatever their other fields hold
C6_TotalExcluded ==
    (Finished(v1) /\ Finished(v2)) =>
        /\ V1Outcome(v1) = V1Outcome(V1Run(DropTotal(rows)))
        /\ V2Outcome(v2) = V2Outcome(V2Run(DropTotal(rows)))

\* a finished report over real trades and two kinds of "Total" rows
C6_Witness ==
    /\ BothDone
    /\ Len(v2.report) >= 1
    /\ \E n \in 1..Len(rows) : IsTotalRow(rows[n]) /\ rows[n].Profit = BadCell
    /\ \E n \in 1..Len(rows) : IsTotalRow(rows[n]) /\ Kept([rows[n] EXCEPT !.ID = "1"])

\* the rows at f[1], f[2], ... : trades moved only within their own day
WithinDay(f, keys) == \A n \in DOMAIN keys : keys[f[n]] = keys[n]

RowKeys == [n \in 1..Len(rows) |->
               IF Kept(rows[n]) THEN KeyOfCell(rows[n].CloseTime) ELSE <<>>]

TradeKeys == [n \in 1..Len(v2.all_trades) |-> v2.all_trades[n].date_str]

\* the second script from the grouping loop on, over the trades ts
V2FromGrouping(ts) ==
    V2RunFrom([V2Init EXCEPT !.pc = "group", !.all_trades = ts], <<>>)

\* C7: permuting the trades of one day before the daily drawdown pass changes
\* no day's netPnl, dayLoss or breached flag
C7_WithinDayOrder ==
    /\ BothDone =>
          \A f \in Perms(Len(rows)) :
              WithinDay(f, RowKeys) =>
                  DayFigures(V1Run([n \in 1..Len(rows) |-> rows[f[n]]]).report)
                      = DayFigures(v1.report)
    /\ v2.pc = "done" =>
          \A f \in Perms(Len(v2.all_trades)) :
              WithinDay(f, TradeKeys) =>
                  DayFigures(V2FromGrouping(
                      [n \in 1..Len(v2.all_trades) |-> v2.all_trades[f[n]]]).report)
                      = DayFigures(v2.report)

\* a day with two trades of different netPnl, and a second day
C7_Witness ==
    /\ BothDone
    /\ Len(v2.report) >= 2
    /\ \E a, b \in 1..Len(v2.all_trades) :
          /\ a # b
          /\ v2.all_trades[a].date_str = v2.all_trades[b].date_str
          /\ v2.all_trades[a].net_pnl # v2.all_trades[b].net_pnl

\* the groups by_day split the trades ts, each trade under the key key(t)
IsPartition(by_day, ts, key(_)) ==
    /\ \A n \in 1..Len(ts) : key(ts[n]) \in DOMAIN by_day
    /\ \A d \in DOMAIN by_day :
          LET OnDay(t) == key(t) = d
          IN by_day[d] # <<>> /\ by_day[d] = SelectSeq(ts, OnDay)

V1Key(t) == KeyOfCell(t.time)
V2Key(t) == KeyOfCell(<<t.dt[3], t.dt[2], t.dt[1]>>)

RECURSIVE V1Trades(_)
\* the trades the first script has made of the rows rs
V1Trades(rs) ==
    IF rs = <<>> THEN <<>>
    ELSE LET r == rs[Len(rs)]
             before == V1Trades(SubSeq(rs, 1, Len(rs) - 1))
         IN IF Kept(r)
            THEN Append(before,
                        [id |-> r.ID, time |-> r.CloseTime,
                         net_pnl |-> r.Profit.val + r.Commission.val + r.Swap.val])
            ELSE before

\* C8: day grouping is a partition of the normalized trades: each trade is in
\* exactly one group, the one keyed by the date of its own closeTime; none is
\* lost or doubled; together the groups are the normalized sequence
C8_Partition ==
    /\ v1.pc # "error" =>
          IsPartition(v1.trades_by_day,
                      V1Trades(SubSeq(rows, 1, IF v1.pc = "read" THEN v1.i - 1
                                               ELSE Len(rows))),
                      V1Key)
    /\ v2.pc = "group" =>
          IsPartition(v2.trades_by_day, SubSeq(v2.all_trades, 1, v2.j - 1), V2Key)
    /\ v2.pc \in {"max", "daily", "done"} =>
          IsPartition(v2.trades_by_day, v2.all_trades, V2Key)

\* all trades grouped: two days, one of them with two trades
C8_Witness ==
    /\ v1.pc = "done" /\ v2.pc = "max"
    /\ Cardinality(DOMAIN v2.trades_by_day) = 2
    /\ \E d \in DOMAIN v2.trades_by_day :
          Len(v2.trades_by_day[d]) = 2 /\ Len(v1.trades_by_day[d]) = 2

\* C9: throughout the max drawdown pass minBalance <= accountSize and
\* minBalance <= the running balance, so maxDrawdownUsed is never negative
C9_MinBalanceBound ==
    /\ v1.pc \in {"max", "done"} =>
          v1.min_bal <= ACCOUNT_SIZE /\ v1.min_bal <= v1.curr_bal
    /\ v2.pc \in {"max", "daily", "done"} =>
          v2.min_balance <= ACCOUNT_SIZE /\ v2.min_balance <= v2.current_balance
    /\ v1.pc = "done" => v1.max_dd_used >= 0
    /\ v2.pc = "done" => v2.max_dd_used >= 0

\* only profitable trades: the balance ends above the account size
C9_Witness ==
    /\ BothDone
    /\ Len(v2.all_trades) >= 2
    /\ v2.current_balance > ACCOUNT_SIZE /\ v2.max_dd_used = 0
    /\ v1.curr_bal > ACCOUNT_SIZE /\ v1.max_dd_used = 0

\* C10: the trade-level minBalance is at most the day-level minBalance, so a
\* day-level max drawdown breach is a trade-level breach too
C10_TradeLevelLower ==
    BothDone =>
        /\ v2.min_balance <= v1.min_bal
        /\ (ACCOUNT_SIZE - v1.min_bal > MAX_DD_LIMIT
              => ACCOUNT_SIZE - v2.min_balance > MAX_DD_LIMIT)

\* a trough inside a day that the day-level pass does not see
C10_Witness ==
    /\ BothDone
    /\ v2.min_balance < v1.min_bal
    /\ Len(v1.sorted_days) >= 2

====
